---- MODULE Spec2Model ----
(***************************************************************************)
(* gohangout: the input box (input/input_box.go) and the supervisor        *)
(* (package main: start, stop, reload, _main, exit).                       *)
(*                                                                         *)
(* Every goroutine is a process with a program counter.  A step is one     *)
(* access to shared memory (box.stop, box.once, box.shutdownChan,          *)
(* box.outputsInAllWorker, the globals inputs and ctx) together with the   *)
(* goroutine-local computation that precedes it.  Go indexes from 0, the   *)
(* model from 1.                                                           *)
(***************************************************************************)
EXTENDS Naturals, FiniteSets, Sequences

\* ---------------------------------------------------------------- bounds
MaxWorker == 2      \* largest value of the -worker flag that is explored
MaxPlanBoxes == 2   \* largest number of inputs in a configuration
MaxBuilds == 1      \* reloads whose buildPluginLink succeeds
MaxReloads == 2     \* calls of reload() in one run
MaxEvents == 1      \* non-nil events one worker reads
MaxLoad == 4        \* reload calls times generations of a reloaded run
MaxOutputs == 2     \* largest number of outputs in a configuration

\* ------------------------------------------------------------ index sets
Gens == 0 .. MaxBuilds                    \* a generation: one []*InputBox from buildPluginLink
Starts == 1 .. (MaxBuilds + 1)            \* the go inputs.start() statements that run
Boxes == 1 .. ((MaxBuilds + 1) * MaxPlanBoxes)
WorkerIdx == 1 .. MaxWorker
Sups == {"main", "watch", "signal"}       \* goroutines that run stop(): _main and the two callers of reload
Reloaders == {"watch", "signal"}

BoxAt(g, i) == g * MaxPlanBoxes + i

VARIABLES
  worker,              \* *worker, the -worker flag
  exitWhenNil,         \* options.exitWhenNil
  planBoxes,           \* len(config["inputs"])
  buildsMax,           \* reloads of the run whose buildPluginLink can succeed
  eventsMax,           \* non-nil events the input has for one worker
  outputs,             \* len(config["outputs"])
  filterDrops,         \* the configuration has a filter that drops some events
  reloadsLeft,         \* reload() calls still to come
  cancelled,           \* ctx is Done
  inputs,              \* the global inputs: the generation it holds
  nBuilt,              \* successful buildPluginLink calls made by reload
  spc,                 \* program counter of _main and of the two callers of reload
  sBoxes,              \* stop(): the local boxes (a generation)
  sIdx,                \* stop(): position of the range loop
  rlBoxes,             \* reload(): the local boxes returned by buildPluginLink
  rlErr,               \* reload(): the local err, as last assigned
  nStarts,             \* go inputs.start() statements executed
  bpc,                 \* Beat(): program counter, per box and start() that called it
  wpc,                 \* beat(): program counter, per box, Beat call and workerIdx
  wEvents,             \* beat(): non-nil events read so far
  wKinds,              \* beat(): for each event read, in read order, whether it survives the filters
  emitLog,             \* beat(): the <<output, event>> pairs handed to the outputs, in order
  stop,                \* box.stop
  once,                \* box.once
  shutdownChan,        \* box.shutdownChan: values in the buffer (capacity 1)
  outputsInAllWorker,  \* box.outputsInAllWorker: 0 = nil, k = the slice made by Beat call k
  rows,                \* the slices made by Beat: rows[b][k][i] = 0 (nil) or the Beat call whose worker i stored its outputs
  rangeArr,            \* shutdown(): the slice the range statement iterates
  rangeIdx,            \* shutdown(): position of the range loop
  inputShutdowns,      \* calls of box.input.Shutdown()
  outputShutdowns      \* calls of o.Output.Shutdown(), per box, Beat call and workerIdx of the owner

flagVars == <<worker, exitWhenNil, planBoxes, buildsMax, eventsMax, outputs, filterDrops>>
supVars == <<reloadsLeft, cancelled, inputs, nBuilt, spc, sBoxes, sIdx, rlBoxes, rlErr, nStarts>>
evVars == <<wEvents, wKinds, emitLog>>
beatVars == <<bpc, wpc, evVars>>
boxVars == <<stop, once, shutdownChan, outputsInAllWorker, rows, rangeArr, rangeIdx,
             inputShutdowns, outputShutdowns>>
vars == <<flagVars, supVars, beatVars, boxVars>>

GenBoxes(g) == {BoxAt(g, j) : j \in 1 .. planBoxes}

\* NewInputBox: stop false, an empty channel of capacity 1, a fresh sync.Once, no slice.
NewInputBox ==
  /\ stop = [b \in Boxes |-> FALSE]
  /\ once = [b \in Boxes |-> "fresh"]
  /\ shutdownChan = [b \in Boxes |-> 0]
  /\ outputsInAllWorker = [b \in Boxes |-> 0]
  /\ rows = [b \in Boxes |-> [k \in Starts |-> [i \in WorkerIdx |-> 0]]]
  /\ rangeArr = [b \in Boxes |-> 0]
  /\ rangeIdx = [b \in Boxes |-> 0]
  /\ inputShutdowns = [b \in Boxes |-> 0]
  /\ outputShutdowns = [b \in Boxes |-> [k \in Starts |-> [i \in WorkerIdx |-> 0]]]

\* The runs explored, each a choice of the flags, of the size of the plan and of what
\* the environment does (events per worker, reload triggers, reloads that build).
\* One dimension is varied at a time.
AllConfigs ==
  [worker : 1 .. MaxWorker, planBoxes : 1 .. MaxPlanBoxes, reloads : 0 .. MaxReloads,
   builds : 0 .. MaxBuilds, events : 0 .. (MaxEvents + 1), exitWhenNil : BOOLEAN,
   outputs : 1 .. MaxOutputs, filterDrops : BOOLEAN]

\* a plan of one output and of filters that drop nothing, an input of few events
PlainConfigs ==
  {c \in AllConfigs : c.outputs = 1 /\ ~c.filterDrops /\ c.events <= MaxEvents}

\* one box with several workers, never reloaded; the more workers, the fewer events each
BoxRuns ==
  {c \in PlainConfigs : /\ c.planBoxes = 1 /\ c.reloads = 0 /\ c.builds = 0 /\ ~c.exitWhenNil
                        /\ c.events >= 1 /\ c.worker * c.events <= MaxWorker}

\* several boxes of one worker each whose inputs have no event, never reloaded, with
\* and without -exit-when-nil
PlanRuns == {c \in PlainConfigs : c.worker = 1 /\ c.events = 0 /\ c.reloads = 0 /\ c.builds = 0}

\* one box of one worker, reloaded
ReloadRuns ==
  {c \in PlainConfigs : /\ c.worker = 1 /\ c.planBoxes = 1 /\ c.events = 1 /\ ~c.exitWhenNil
                      /\ c.reloads >= 1 /\ c.builds <= c.reloads
                      /\ c.reloads * (1 + c.builds) <= MaxLoad}

\* one box of one worker, never reloaded: the outputs, the filters and the events vary
EventRuns ==
  {c \in AllConfigs : /\ c.worker = 1 /\ c.planBoxes = 1 /\ c.reloads = 0 /\ c.builds = 0
                      /\ ~c.exitWhenNil}

Configs == BoxRuns \cup PlanRuns \cup ReloadRuns \cup EventRuns

\* _main up to <-ctx.Done(): the first generation is built, published (inputs) and
\* started (go inputs.start(), which calls Beat of every box in a goroutine of its
\* own); the watcher and the signal listener are installed.
Init ==
  /\ \E c \in Configs :
       /\ worker = c.worker
       /\ planBoxes = c.planBoxes
       /\ reloadsLeft = c.reloads
       /\ buildsMax = c.builds
       /\ eventsMax = c.events
       /\ exitWhenNil = c.exitWhenNil
       /\ outputs = c.outputs
       /\ filterDrops = c.filterDrops
  /\ cancelled = FALSE
  /\ inputs = 0
  /\ nBuilt = 0
  /\ spc = [s \in Sups |-> IF s = "main" THEN "wait" ELSE "idle"]
  /\ sBoxes = [s \in Sups |-> 0]
  /\ sIdx = [s \in Sups |-> 0]
  /\ rlBoxes = [s \in Reloaders |-> 0]
  /\ rlErr = [s \in Reloaders |-> "none"]
  /\ nStarts = 1
  /\ bpc = [b \in Boxes |-> [k \in Starts |-> IF k = 1 /\ b \in GenBoxes(0) THEN "make" ELSE "none"]]
  /\ wpc = [b \in Boxes |-> [k \in Starts |-> [i \in WorkerIdx |-> "none"]]]
  /\ wEvents = [b \in Boxes |-> [k \in Starts |-> [i \in WorkerIdx |-> 0]]]
  /\ wKinds = [b \in Boxes |-> [k \in Starts |-> [i \in WorkerIdx |-> <<>>]]]
  /\ emitLog = [b \in Boxes |-> [k \in Starts |-> [i \in WorkerIdx |-> <<>>]]]
  /\ NewInputBox

\* When _main returns the process ends and with it every goroutine.
Running == spc["main"] # "done"

\* the boxes built so far, the start() calls made so far, the workers of a Beat
BuiltBoxes == {BoxAt(g, j) : g \in 0 .. nBuilt, j \in 1 .. planBoxes}
Started == 1 .. nStarts
BeatWorkers == 1 .. worker

\* ------------------------------------------------------------ InputBox
ChanCap == 1   \* make(chan bool, 1)

\* (a Once that forgets that f has run)
OnceDo_forgets(st) == st # "running"

\* sync.Once.Do runs f for the first caller only.
OnceDo(st) == st = "fresh"

\* box.stop, box.outputsInAllWorker and its elements are read and written with no
\* synchronisation.  A read that races with a write returns the value written or the
\* value a write the reader is ordered after left there: false for box.stop (only
\* Shutdown writes it, no worker is ordered after that), and for the slice what the
\* reader's own goroutine, or the Beat that started it, stored (own; 0 = nil, for a
\* caller of Shutdown()).
ReadStop(b) == {stop[b], FALSE}
ReadSlice(b, own) == {outputsInAllWorker[b], own}
ReadRow(b, a, i, own) == {rows[b][a][i]} \cup (IF rows[b][a][i] = own THEN {} ELSE {0})

\* shutdown(), box.once.Do: the first caller calls box.input.Shutdown() and evaluates
\* the range expression box.outputsInAllWorker (nil before Beat: no iteration); a
\* caller that arrives while f runs waits for it; a later caller skips f.
shutdown_once(b, own) ==
  /\ once[b] # "running"
  /\ IF OnceDo(once[b])
       THEN /\ inputShutdowns' = [inputShutdowns EXCEPT ![b] = @ + 1]
            /\ \E a \in ReadSlice(b, own) :
                 IF a = 0
                   THEN /\ once' = [once EXCEPT ![b] = "done"]
                        /\ UNCHANGED <<rangeArr, rangeIdx>>
                   ELSE /\ once' = [once EXCEPT ![b] = "running"]
                        /\ rangeArr' = [rangeArr EXCEPT ![b] = a]
                        /\ rangeIdx' = [rangeIdx EXCEPT ![b] = 1]
       ELSE UNCHANGED <<inputShutdowns, rangeArr, rangeIdx, once>>
  /\ UNCHANGED <<stop, shutdownChan, outputsInAllWorker, rows, outputShutdowns>>

\* where the caller of shutdown_once goes next: into the range loop if it runs f and
\* the slice is not nil, else to the send
AfterOnce(b) == IF once'[b] = "running" THEN "sd_range" ELSE "sd_send"

\* shutdown(), one iteration of the range loop: the outputs found at index i are
\* shut down; after the last one f returns.
shutdown_range(b, own) ==
  LET i == rangeIdx[b]
  IN /\ \E r \in ReadRow(b, rangeArr[b], i, own) :
          outputShutdowns' = IF r = 0 THEN outputShutdowns
                             ELSE [outputShutdowns EXCEPT ![b][r][i] = @ + 1]
     /\ IF i = worker
          THEN /\ once' = [once EXCEPT ![b] = "done"]
               /\ rangeArr' = [rangeArr EXCEPT ![b] = 0]
               /\ rangeIdx' = [rangeIdx EXCEPT ![b] = 0]
          ELSE /\ rangeIdx' = [rangeIdx EXCEPT ![b] = i + 1]
               /\ UNCHANGED <<once, rangeArr>>
     /\ UNCHANGED <<stop, shutdownChan, outputsInAllWorker, rows, inputShutdowns>>

AfterRange(b) == IF rangeIdx[b] = worker THEN "sd_send" ELSE "sd_range"

\* shutdown(): box.shutdownChan <- true, which blocks while the buffer is full.
shutdown_send(b) ==
  /\ shutdownChan[b] < ChanCap
  /\ shutdownChan' = [shutdownChan EXCEPT ![b] = @ + 1]
  /\ UNCHANGED <<stop, once, outputsInAllWorker, rows, rangeArr, rangeIdx,
                 inputShutdowns, outputShutdowns>>

\* ------------------------------------------------------------ beat(workerIdx)
\* BuildOutputs and box.outputsInAllWorker[workerIdx] = outputs; the link is built.
beat_build(b, k, i) ==
  /\ Running
  /\ wpc[b][k][i] = "build"
  /\ rows' = [rows EXCEPT ![b][outputsInAllWorker[b]][i] = k]
  /\ wpc' = [wpc EXCEPT ![b][k][i] = "loop"]
  /\ UNCHANGED <<flagVars, supVars, bpc, evVars>>
  /\ UNCHANGED <<stop, once, shutdownChan, outputsInAllWorker, rangeArr, rangeIdx,
                 inputShutdowns, outputShutdowns>>

\* for !box.stop { event = box.input.ReadOneEvent() ...: the loop condition, then the call
beat_loop(b, k, i) ==
  /\ Running
  /\ wpc[b][k][i] = "loop"
  /\ \E stopped \in ReadStop(b) :
       wpc' = [wpc EXCEPT ![b][k][i] = IF stopped THEN "ret_stop" ELSE "read"]
  /\ UNCHANGED <<flagVars, supVars, bpc, evVars, boxVars>>

\* (the stop flag checked before the nil check: an event read while stop is set is
\* thrown away)
AfterRead_stopFirst(isNil, stopped) ==
  IF stopped THEN (IF isNil THEN "ret_nil_stop" ELSE "ret_stop")
  ELSE IF isNil THEN "sd_once" ELSE "process"

\* where a worker goes with what ReadOneEvent returned:
\* if event == nil { if !box.stop { box.shutdown() }; return }; firstNode.Process(event)
AfterRead(isNil, stopped) ==
  IF ~isNil THEN "process" ELSE IF stopped THEN "ret_nil_stop" ELSE "sd_once"

\* what the events an input delivers can be: one the filters pass, or, with a filter
\* that drops, one they drop
EventKinds == IF filterDrops THEN BOOLEAN ELSE {TRUE}

\* ReadOneEvent returns, an event or nil; the event is the wEvents-th of this worker
beat_read(b, k, i) ==
  /\ Running
  /\ wpc[b][k][i] = "read"
  /\ \/ /\ wEvents[b][k][i] < eventsMax
        /\ wEvents' = [wEvents EXCEPT ![b][k][i] = @ + 1]
        /\ \E survives \in EventKinds :
             wKinds' = [wKinds EXCEPT ![b][k][i] = Append(@, survives)]
        /\ wpc' = [wpc EXCEPT ![b][k][i] = AfterRead(FALSE, stop[b])]
     \/ /\ \E stopped \in ReadStop(b) :
             wpc' = [wpc EXCEPT ![b][k][i] = AfterRead(TRUE, stopped)]
        /\ UNCHANGED <<wEvents, wKinds>>
  /\ UNCHANGED <<flagVars, supVars, bpc, emitLog, boxVars>>

\* (the processor at the end of the link is always outputs[0])
outputProcessor_first(n) == <<1>>

\* the processor at the end of the link, as the outputs it passes an event to, in
\* order: outputs[0] if len(outputs) == 1, else (output.OutputsProcessor)(outputs)
outputProcessor(n) == IF n = 1 THEN <<1>> ELSE [o \in 1 .. n |-> o]

\* the <<output, event>> pairs of one event e passed to the outputs outs, in order
RECURSIVE Emits(_, _)
Emits(outs, e) ==
  IF outs = <<>> THEN <<>> ELSE <<<<Head(outs), e>>>> \o Emits(Tail(outs), e)

\* ProcessorNode.Process: the filters run in order; an event that one of them drops
\* goes no further, an event that reaches the end of the link is passed to the
\* output processor, which passes it to each of its outputs in order
Process(log, e, survives, outs) == IF survives THEN log \o Emits(outs, e) ELSE log

\* firstNode.Process(event), the event being the last one read
beat_process(b, k, i) ==
  /\ Running
  /\ wpc[b][k][i] = "process"
  /\ emitLog' = [emitLog EXCEPT ![b][k][i] =
                   Process(@, wEvents[b][k][i], wKinds[b][k][i][wEvents[b][k][i]],
                           outputProcessor(outputs))]
  /\ wpc' = [wpc EXCEPT ![b][k][i] = "loop"]
  /\ UNCHANGED <<flagVars, supVars, bpc, wEvents, wKinds, boxVars>>

\* box.shutdown() called by the worker, then return
beat_shutdown_once(b, k, i) ==
  /\ Running
  /\ wpc[b][k][i] = "sd_once"
  /\ shutdown_once(b, k)
  /\ wpc' = [wpc EXCEPT ![b][k][i] = AfterOnce(b)]
  /\ UNCHANGED <<flagVars, supVars, bpc, evVars>>

beat_shutdown_range(b, k, i) ==
  /\ Running
  /\ wpc[b][k][i] = "sd_range"
  /\ shutdown_range(b, IF rangeIdx[b] = i THEN k ELSE 0)
  /\ wpc' = [wpc EXCEPT ![b][k][i] = AfterRange(b)]
  /\ UNCHANGED <<flagVars, supVars, bpc, evVars>>

beat_shutdown_send(b, k, i) ==
  /\ Running
  /\ wpc[b][k][i] = "sd_send"
  /\ shutdown_send(b)
  /\ wpc' = [wpc EXCEPT ![b][k][i] = "ret_nil"]
  /\ UNCHANGED <<flagVars, supVars, bpc, evVars>>

\* ------------------------------------------------------------ Beat(worker)
\* box.outputsInAllWorker = make(..., worker); go box.beat(i) for every i
Beat_make(b, k) ==
  /\ Running
  /\ bpc[b][k] = "make"
  /\ outputsInAllWorker' = [outputsInAllWorker EXCEPT ![b] = k]
  /\ wpc' = [wpc EXCEPT ![b][k] = [i \in WorkerIdx |-> IF i <= worker THEN "build" ELSE "none"]]
  /\ bpc' = [bpc EXCEPT ![b][k] = "recv"]
  /\ UNCHANGED <<flagVars, supVars, evVars>>
  /\ UNCHANGED <<stop, once, shutdownChan, rows, rangeArr, rangeIdx,
                 inputShutdowns, outputShutdowns>>

\* <-box.shutdownChan
Beat_recv(b, k) ==
  /\ Running
  /\ bpc[b][k] = "recv"
  /\ shutdownChan[b] > 0
  /\ shutdownChan' = [shutdownChan EXCEPT ![b] = @ - 1]
  /\ bpc' = [bpc EXCEPT ![b][k] = "ret"]
  /\ UNCHANGED <<flagVars, supVars, wpc, evVars>>
  /\ UNCHANGED <<stop, once, outputsInAllWorker, rows, rangeArr, rangeIdx,
                 inputShutdowns, outputShutdowns>>

\* ------------------------------------------------------------ gohangoutInputs.start
\* (wg.Add(1) in place of wg.Add(len(boxes)): one Done ends the wait)
start_returned_one(k) ==
  /\ k <= nStarts
  /\ \E b \in Boxes : bpc[b][k] = "ret"

\* start(): wg.Wait() has returned when every Beat it called has returned
start_returned(k) ==
  /\ k <= nStarts
  /\ \A b \in Boxes : bpc[b][k] \in {"none", "ret"}

\* ------------------------------------------------------------ gohangoutInputs.stop
SupBox(s) == BoxAt(sBoxes[s], sIdx[s])

\* where a goroutine goes when its stop() returns: _main to its return, reload on to buildPluginLink
AfterStop(s) == IF s = "main" THEN "return" ELSE "build"

\* box.Shutdown(): box.shutdown() ...
Shutdown_once(s) ==
  /\ Running
  /\ spc[s] = "sd_once"
  /\ shutdown_once(SupBox(s), 0)
  /\ spc' = [spc EXCEPT ![s] = AfterOnce(SupBox(s))]
  /\ UNCHANGED <<flagVars, reloadsLeft, cancelled, inputs, nBuilt, sBoxes, sIdx, rlBoxes, rlErr, nStarts>>
  /\ UNCHANGED beatVars

Shutdown_range(s) ==
  /\ Running
  /\ spc[s] = "sd_range"
  /\ shutdown_range(SupBox(s), 0)
  /\ spc' = [spc EXCEPT ![s] = AfterRange(SupBox(s))]
  /\ UNCHANGED <<flagVars, reloadsLeft, cancelled, inputs, nBuilt, sBoxes, sIdx, rlBoxes, rlErr, nStarts>>
  /\ UNCHANGED beatVars

Shutdown_send(s) ==
  /\ Running
  /\ spc[s] = "sd_send"
  /\ shutdown_send(SupBox(s))
  /\ spc' = [spc EXCEPT ![s] = "set_stop"]
  /\ UNCHANGED <<flagVars, reloadsLeft, cancelled, inputs, nBuilt, sBoxes, sIdx, rlBoxes, rlErr, nStarts>>
  /\ UNCHANGED beatVars

\* ... box.stop = true; then the next box of the range loop of stop(), or stop() returns
Shutdown_stop(s) ==
  /\ Running
  /\ spc[s] = "set_stop"
  /\ stop' = [stop EXCEPT ![SupBox(s)] = TRUE]
  /\ IF sIdx[s] < planBoxes
       THEN /\ sIdx' = [sIdx EXCEPT ![s] = @ + 1]
            /\ spc' = [spc EXCEPT ![s] = "sd_once"]
       ELSE /\ spc' = [spc EXCEPT ![s] = AfterStop(s)]
            /\ UNCHANGED sIdx
  /\ UNCHANGED <<flagVars, reloadsLeft, cancelled, inputs, nBuilt, sBoxes, rlBoxes, rlErr, nStarts>>
  /\ UNCHANGED beatVars
  /\ UNCHANGED <<once, shutdownChan, outputsInAllWorker, rows, rangeArr, rangeIdx,
                 inputShutdowns, outputShutdowns>>

\* ------------------------------------------------------------ reload
\* reload() is called, by the watcher (config.WatchConfig) or by the signal listener
\* (signal.ListenSignal): gohangoutConfig, err := config.ParseConfig(options.config)
reload_parse(t) ==
  /\ Running
  /\ spc[t] = "idle"
  /\ reloadsLeft > 0
  /\ reloadsLeft' = reloadsLeft - 1
  /\ \E err \in {"none", "parse"} : rlErr' = [rlErr EXCEPT ![t] = err]
  /\ spc' = [spc EXCEPT ![t] = "parsed"]
  /\ UNCHANGED <<flagVars, cancelled, inputs, nBuilt, sBoxes, sIdx, rlBoxes, nStarts>>
  /\ UNCHANGED <<beatVars, boxVars>>

\* (the error of ParseConfig ignored)
AfterParse_unchecked(err) == "sd_once"

\* if err != nil { return } after ParseConfig
AfterParse(err) == IF err # "none" THEN "idle" ELSE "sd_once"

\* the error check, then inputs.stop(): boxes := ([]*input.InputBox)(inputs), the
\* global read once, when stop is called
reload_parsed(t) ==
  /\ Running
  /\ spc[t] = "parsed"
  /\ spc' = [spc EXCEPT ![t] = AfterParse(rlErr[t])]
  /\ IF AfterParse(rlErr[t]) = "idle"
       THEN UNCHANGED <<sBoxes, sIdx>>
       ELSE /\ sBoxes' = [sBoxes EXCEPT ![t] = inputs]
            /\ sIdx' = [sIdx EXCEPT ![t] = 1]
  /\ UNCHANGED <<flagVars, reloadsLeft, cancelled, inputs, nBuilt, rlBoxes, rlErr, nStarts>>
  /\ UNCHANGED <<beatVars, boxVars>>

\* boxes, err := buildPluginLink(gohangoutConfig)
reload_build(t) ==
  /\ Running
  /\ spc[t] = "build"
  /\ \/ /\ rlErr' = [rlErr EXCEPT ![t] = "build"]
        /\ UNCHANGED <<nBuilt, rlBoxes>>
     \/ /\ nBuilt < buildsMax
        /\ nBuilt' = nBuilt + 1
        /\ rlBoxes' = [rlBoxes EXCEPT ![t] = nBuilt + 1]
        /\ rlErr' = [rlErr EXCEPT ![t] = "none"]
  /\ spc' = [spc EXCEPT ![t] = "built"]
  /\ UNCHANGED <<flagVars, reloadsLeft, cancelled, inputs, sBoxes, sIdx, nStarts>>
  /\ UNCHANGED <<beatVars, boxVars>>

\* if err != nil { return } after buildPluginLink
AfterBuild(err) == IF err # "none" THEN "idle" ELSE "start"

\* the error check, then inputs = gohangoutInputs(boxes)
reload_built(t) ==
  /\ Running
  /\ spc[t] = "built"
  /\ spc' = [spc EXCEPT ![t] = AfterBuild(rlErr[t])]
  /\ inputs' = IF AfterBuild(rlErr[t]) = "idle" THEN inputs ELSE rlBoxes[t]
  /\ rlBoxes' = [rlBoxes EXCEPT ![t] = 0]
  /\ sBoxes' = [sBoxes EXCEPT ![t] = 0]
  /\ sIdx' = [sIdx EXCEPT ![t] = 0]
  /\ UNCHANGED <<flagVars, reloadsLeft, cancelled, nBuilt, rlErr, nStarts>>
  /\ UNCHANGED <<beatVars, boxVars>>

\* go inputs.start(): the receiver is the global, read when the go statement runs;
\* start() calls Beat of every box in a goroutine of its own
reload_start(t) ==
  /\ Running
  /\ spc[t] = "start"
  /\ nStarts' = nStarts + 1
  /\ bpc' = [b \in Boxes |-> IF b \in GenBoxes(inputs)
                               THEN [bpc[b] EXCEPT ![nStarts + 1] = "make"] ELSE bpc[b]]
  /\ spc' = [spc EXCEPT ![t] = "idle"]
  /\ UNCHANGED <<flagVars, reloadsLeft, cancelled, inputs, nBuilt, sBoxes, sIdx, rlBoxes, rlErr>>
  /\ UNCHANGED <<wpc, evVars, boxVars>>

\* ------------------------------------------------------------ exit, _main
\* exit(): cancel(), called by the signal listener on a termination signal
exit ==
  /\ Running
  /\ spc["signal"] = "idle"
  /\ ~cancelled
  /\ cancelled' = TRUE
  /\ UNCHANGED <<flagVars, reloadsLeft, inputs, nBuilt, spc, sBoxes, sIdx, rlBoxes, rlErr, nStarts>>
  /\ UNCHANGED <<beatVars, boxVars>>

\* <-ctx.Done(); inputs.stop(): boxes := ([]*input.InputBox)(inputs)
main_stop ==
  /\ spc["main"] = "wait"
  /\ cancelled
  /\ sBoxes' = [sBoxes EXCEPT !["main"] = inputs]
  /\ sIdx' = [sIdx EXCEPT !["main"] = 1]
  /\ spc' = [spc EXCEPT !["main"] = "sd_once"]
  /\ UNCHANGED <<flagVars, reloadsLeft, cancelled, inputs, nBuilt, rlBoxes, rlErr, nStarts>>
  /\ UNCHANGED <<beatVars, boxVars>>

\* _main returns, main returns after it and the process ends
main_return ==
  /\ spc["main"] = "return"
  /\ spc' = [spc EXCEPT !["main"] = "done"]
  /\ UNCHANGED <<flagVars, reloadsLeft, cancelled, inputs, nBuilt, sBoxes, sIdx, rlBoxes, rlErr, nStarts>>
  /\ UNCHANGED <<beatVars, boxVars>>

Next ==
  \/ \E b \in BuiltBoxes, k \in Started, i \in BeatWorkers :
       \/ beat_build(b, k, i)
       \/ beat_loop(b, k, i)
       \/ beat_read(b, k, i)
       \/ beat_process(b, k, i)
       \/ beat_shutdown_once(b, k, i)
       \/ beat_shutdown_range(b, k, i)
       \/ beat_shutdown_send(b, k, i)
  \/ \E b \in BuiltBoxes, k \in Started : Beat_make(b, k) \/ Beat_recv(b, k)
  \/ \E s \in Sups :
       \/ Shutdown_once(s)
       \/ Shutdown_range(s)
       \/ Shutdown_send(s)
       \/ Shutdown_stop(s)
  \/ \E t \in Reloaders :
       \/ reload_parse(t)
       \/ reload_parsed(t)
       \/ reload_build(t)
       \/ reload_built(t)
       \/ reload_start(t)
  \/ exit
  \/ main_stop
  \/ main_return

Spec == Init /\ [][Next]_vars

\* ============================================================ properties
Slots == Boxes \X Starts \X WorkerIdx

\* the worker has built its outputs (line 31 of input_box.go has run)
HasOutputs(b, k, i) == wpc[b][k][i] \notin {"none", "build"}

Returned(b, k, i) == wpc[b][k][i] \in {"ret_stop", "ret_nil", "ret_nil_stop"}

\* C1. Shutdown idempotence: however many goroutines call shutdown() of a box, its
\* input driver's Shutdown has been called exactly once as soon as one of them has
\* entered once.Do, and no output driver instance's Shutdown is called twice.
C1_ShutdownOnce ==
  \A b \in Boxes :
    /\ inputShutdowns[b] <= 1
    /\ (once[b] # "fresh" => inputShutdowns[b] = 1)
    /\ \A k \in Starts, i \in WorkerIdx : outputShutdowns[b][k][i] <= 1

\* a worker that read nil and the supervisor's Shutdown() have both completed
\* shutdown() of one box
C1_Witness ==
  \E b \in Boxes, k \in Starts, i \in WorkerIdx :
    /\ wpc[b][k][i] = "ret_nil"
    /\ stop[b]
    /\ inputShutdowns[b] = 1
    /\ outputShutdowns[b][k][i] = 1

\* C2. Every output driver instance a worker has constructed has received its
\* Shutdown once the shutdown of its box is complete and the worker has returned.
C2_EveryOutputShutDown ==
  \A b \in Boxes, k \in Starts, i \in WorkerIdx :
    (once[b] = "done" /\ Returned(b, k, i)) => outputShutdowns[b][k][i] >= 1

\* C3. Shutdown waits for in-flight events: no worker holds an event it is about to
\* hand to firstNode.Process when the Shutdown of its outputs has been called.
C3_NoProcessAfterOutputShutdown ==
  \A b \in Boxes, k \in Starts, i \in WorkerIdx :
    wpc[b][k][i] = "process" => outputShutdowns[b][k][i] = 0

\* a send on box.shutdownChan that can never complete: the buffer is full, no Beat of
\* the box is left to receive and no reload is about to start one
StuckSend(b) ==
  /\ shutdownChan[b] = ChanCap
  /\ \A k \in Starts : bpc[b][k] \notin {"make", "recv"}
  /\ \A t \in Reloaders : spc[t] \notin {"built", "start"}

\* C4. Supervisor termination: after the token is cancelled, inputs.stop() of _main
\* never blocks forever inside a box's Shutdown().
C4_StopNeverBlocks ==
  ~(spc["main"] = "sd_send" /\ StuckSend(SupBox("main")))

\* the generation of a box
GenOf(b) == (b - 1) \div MaxPlanBoxes

\* C5. Reload ordering: no worker of a new-generation box holds an event while a
\* worker of an older generation is still processing one.
C5_ReloadOrdering ==
  \A o \in Slots, n \in Slots :
    (GenOf(o[1]) < GenOf(n[1]) /\ wpc[n[1]][n[2]][n[3]] = "process")
      => wpc[o[1]][o[2]][o[3]] # "process"

\* C6. A reload whose configuration fails to parse returns at once and changes
\* nothing: the global inputs, every box (no shutdown, no stop) and every Beat and
\* worker are as before, no box is built and none is started.
C6_ParseFailureKeepsPlan ==
  [][\A t \in Reloaders :
       (spc[t] = "parsed" /\ rlErr[t] = "parse" /\ spc'[t] # spc[t])
         => /\ spc'[t] = "idle"
            /\ UNCHANGED <<inputs, nBuilt, nStarts, beatVars, boxVars>>]_vars

\* a reload has returned on a parse error while a box of the running generation,
\* never shut down, has a worker reading
C6_Witness ==
  \E t \in Reloaders :
    /\ spc[t] = "idle"
    /\ rlErr[t] = "parse"
    /\ \E b \in GenBoxes(inputs), k \in Starts, i \in WorkerIdx :
         once[b] = "fresh" /\ wpc[b][k][i] = "read"

\* C7. A reload that fails in buildPluginLink is ignored: when it has returned (and
\* no termination was asked for) no box of the running generation has been stopped.
C7_BuildFailureKeepsPlan ==
  \A t \in Reloaders :
    (spc[t] = "idle" /\ rlErr[t] = "build" /\ ~cancelled)
      => \A b \in GenBoxes(inputs) : ~stop[b] /\ once[b] = "fresh"

\* C8. Reload is serialized: at most one execution of reload() is in progress.
C8_ReloadSerialized ==
  Cardinality({t \in Reloaders : spc[t] # "idle"}) <= 1

\* C9. On termination every box is stopped: when _main returns, a shutdown has begun
\* on every box whose Beat has been called.
C9_AllStoppedAtExit ==
  spc["main"] = "done"
    => \A b \in Boxes, k \in Starts : bpc[b][k] \in {"recv", "ret"} => once[b] # "fresh"

\* C10. With exit-when-nil, a worker that has read nil and returned has cancelled
\* the token (so that _main stops every box and returns).
C10_NilExitsProcess ==
  exitWhenNil =>
    \A b \in Boxes, k \in Starts, i \in WorkerIdx : wpc[b][k][i] = "ret_nil" => cancelled

\* a step of worker i of Beat k of box b that follows its ReadOneEvent: the nil
\* check, and the shutdown() the worker calls
NilStep(b, k, i) ==
  /\ wpc[b][k][i] \in {"read", "sd_once", "sd_range", "sd_send"}
  /\ wpc'[b][k][i] # wpc[b][k][i]

HandedTo(b, k, i, o) ==
  LET calls == SelectSeq(emitLog[b][k][i], LAMBDA p : p[1] = o)
  IN [j \in 1 .. Len(calls) |-> calls[j][2]]

\* the events of a worker for which firstNode.Process has returned
Processed(b, k, i) ==
  IF wpc[b][k][i] = "process" THEN wEvents[b][k][i] - 1 ELSE wEvents[b][k][i]

\* of the first n events read, those that survive the filters, in read order
Survivors(kinds, n) == SelectSeq([e \in 1 .. n |-> e], LAMBDA e : kinds[e])

\* C12. Per-worker ordering: what a worker has handed to each configured output is
\* the subsequence of the events it has read that survive the filters, in read
\* order, every event read being handed over before the next read or the return.
C12_PerWorkerOrder ==
  \A b \in BuiltBoxes, k \in Started, i \in BeatWorkers :
    /\ Len(wKinds[b][k][i]) = wEvents[b][k][i]
    /\ \A o \in 1 .. outputs :
         HandedTo(b, k, i, o) = Survivors(wKinds[b][k][i], Processed(b, k, i))

\* a worker has read an event the filters drop, then one they pass, and has handed
\* over the second after Shutdown() had shut its outputs down and set stop
C12_Witness ==
  \E b \in Boxes, k \in Starts, i \in WorkerIdx :
    /\ wKinds[b][k][i] = <<FALSE, TRUE>>
    /\ wpc[b][k][i] = "ret_stop"
    /\ outputShutdowns[b][k][i] = 1
    /\ \A o \in 1 .. outputs : HandedTo(b, k, i, o) = <<2>>

\* C13. The lifecycle never goes back from Stopping or Stopped to Running: a Beat
\* that starts on a box whose Shutdown() has completed (stop is set) starts no worker.
C13_NoRunningAfterShutdown ==
  [][\A b \in Boxes, k \in Starts :
       (bpc[b][k] = "make" /\ bpc'[b][k] # "make" /\ stop[b])
         => \A i \in WorkerIdx : wpc'[b][k][i] = "none"]_vars

\* C14. Multi-output fan-out: the calls a worker has made to its outputs are, for
\* each event that reached the end of the filter chain, in read order, one call to
\* each configured output, in configuration order, and nothing else (one call per
\* event with one output configured).
C14_FanOut ==
  \A b \in BuiltBoxes, k \in Started, i \in BeatWorkers :
    LET sv == Survivors(wKinds[b][k][i], Processed(b, k, i))
        log == emitLog[b][k][i]
    IN /\ Len(log) = outputs * Len(sv)
       /\ \A j \in 1 .. Len(sv), o \in 1 .. outputs :
            log[(j - 1) * outputs + o] = <<o, sv[j]>>

\* with two outputs configured a worker has passed two events, each to the first
\* output and then to the second
C14_Witness ==
  /\ outputs = 2
  /\ \E b \in Boxes, k \in Starts, i \in WorkerIdx :
       emitLog[b][k][i] = <<<<1, 1>>, <<2, 1>>, <<1, 2>>, <<2, 2>>>>

\* C15. start() waits until stop: when a Beat returns, a shutdown of its box has run
\* to the end of once.Do, so that the input driver's Shutdown and the Shutdown of
\* the outputs of every worker of that Beat that has registered them have completed.
C15_BeatReturnsAfterShutdown ==
  [][\A b \in Boxes, k \in Starts :
       (bpc[b][k] = "recv" /\ bpc'[b][k] = "ret")
         => /\ once[b] = "done"
            /\ inputShutdowns[b] = 1
            /\ \A i \in WorkerIdx :
                 rows[b][k][i] = k => outputShutdowns[b][k][i] >= 1]_vars

\* C16. No shutdown caller blocks forever: no worker and no caller of Shutdown() is
\* at the send of shutdown() with the buffer full and no Beat left to receive.
C16_NoCallerBlocks ==
  /\ \A b \in Boxes, k \in Starts, i \in WorkerIdx :
       wpc[b][k][i] = "sd_send" => ~StuckSend(b)
  /\ \A s \in Sups : spc[s] = "sd_send" => ~StuckSend(SupBox(s))

\* an explicit Shutdown() of box b has shut the input driver down and has not yet
\* returned, and no worker of the box has called shutdown()
ExplicitShutdownInProgress(b) ==
  /\ inputShutdowns[b] = 1
  /\ \E s \in Sups : spc[s] \in {"sd_range", "sd_send", "set_stop"} /\ SupBox(s) = b
  /\ \A k \in Starts, i \in WorkerIdx :
       wpc[b][k][i] \notin {"sd_once", "sd_range", "sd_send", "ret_nil"}

\* C17. The stop-flag guard: a worker whose ReadOneEvent returns while an explicit
\* Shutdown() of its box is in progress, the input driver already shut down by it,
\* does not go on to call shutdown().
C17_GuardSeparatesShutdown ==
  [][\A b \in Boxes, k \in Starts, i \in WorkerIdx :
       (wpc[b][k][i] = "read" /\ ExplicitShutdownInProgress(b))
         => wpc'[b][k][i] # "sd_once"]_vars

\* C18. Bounded processing after shutdown: once Shutdown() has set stop, a worker
\* that comes to its loop check starts no further ReadOneEvent: it returns.
C18_NoReadAfterStop ==
  [][\A b \in Boxes, k \in Starts, i \in WorkerIdx :
       (stop[b] /\ wpc[b][k][i] = "loop" /\ wpc'[b][k][i] # "loop")
         => wpc'[b][k][i] = "ret_stop"]_vars

====
